---- MODULE Spec2Model ----
(***************************************************************************)
(* Bubble Babble binary data encoding (bubblebabble.py): encode, decode    *)
(* and the helpers of decode, modelled as operators computed as the        *)
(* Python code computes them, and a small state machine that applies them. *)
(*                                                                         *)
(* A Python str is a sequence of one-character strings, a bytes object a   *)
(* sequence of integers in 0..255.  Python indices are 0-based: the        *)
(* character at Python offset k of a sequence q is q[k+1].                 *)
(* A raised exception is a record with ok = FALSE carrying the exception   *)
(* class, the message text and the position printed in the message         *)
(* (NoPos when the message has none).                                      *)
(***************************************************************************)
EXTENDS Integers, Sequences, FiniteSets, TLC

\* ------------------------------------------------------------------ bounds
MaxLen == 3          \* longest generated byte sequence
MaxStrLen == 5       \* longest string fed directly to decode

\* bytes the generated inputs are made of: every 2-bit high field, every
\* 2-bit low field, middle fields 0, 4, 10, 12, 15
ByteSet == {0, 49, 80, 107, 130, 255}

\* characters of the strings fed directly to decode
FeedChars == {"x", "a", "e", "b", "-"}

\* the inputs of the __main__ demo
V1234567890 == <<49, 50, 51, 52, 53, 54, 55, 56, 57, 48>>
VPineapple == <<80, 105, 110, 101, 97, 112, 112, 108, 101>>
KnownVectors == {<<>>, V1234567890, VPineapple}

\* every byte value, alone (the byte of a tail) and as both bytes of a pair
Byte == 0..255
EveryByte == {<<b>> : b \in Byte} \cup {<<b, b>> : b \in Byte}

\* ------------------------------------------------------------------ tables
vow == <<"a", "e", "i", "o", "u", "y">>
con == <<"b", "c", "d", "f", "g", "h", "k", "l", "m", "n", "p", "r", "s",
         "t", "v", "z", "x">>

NoPos == -1
NotFound == -1

Range(q) == {q[k] : k \in 1..Len(q)}

Min(a, b) == IF a < b THEN a ELSE b

\* every character a substitution may put into a string: the two tables,
\* the separator and one character of neither table
Alphabet == Range(vow) \cup Range(con) \cup {"-", "q"}

\* ------------------------------------------------------- Python primitives
\* str.index(ch): offset of the first occurrence, NotFound for ValueError
PyIndex(tbl, ch) ==
    IF \E k \in 1..Len(tbl) : tbl[k] = ch
    THEN (CHOOSE k \in 1..Len(tbl) :
              tbl[k] = ch /\ \A j \in 1..(k - 1) : tbl[j] # ch) - 1
    ELSE NotFound

\* q[a:b] for 0 <= a <= b: the slice is clamped to the sequence
PySlice(q, a, b) == SubSeq(q, a + 1, Min(b, Len(q)))

\* ------------------------------------------------------------------ encode
\* the 1 of the tail round forgotten
rounds_short(n) == n \div 2

rounds(n) == 1 + n \div 2

\* the weight of the first byte forgotten
EncNextC_unweighted(C, b0, b1) == (C * 5 + b0 + b1) % 36

EncNextC(C, b0, b1) == (C * 5 + b0 * 7 + b1) % 36

\* <= for <: the last round of an even-length input reads a byte too
EncodesByte_offbyone(i, n) == i + 1 <= rounds(n) \/ n % 2 = 1

\* line 28: the round encodes a byte (and not the checksum tail)
EncodesByte(i, n) == i + 1 < rounds(n) \/ n % 2 = 1

\* lines 29-31: the three characters of the byte b under checksum C
EncHead(b, C) ==
    << (((b \div 64) % 4) + C) % 6, (b \div 4) % 16,
       ((b % 4) + (C \div 6)) % 6 >>

\* the separator appended after both consonants
EncPair_hyphenlast(b) ==
    << con[((b \div 16) % 16) + 1], con[(b % 16) + 1], "-" >>

\* lines 34-36: the three characters appended for the second byte of a pair
EncPair(b) == << con[((b \div 16) % 16) + 1], "-", con[(b % 16) + 1] >>

\* the two vowels of the tail exchanged
EncTail_swapped(C) == << C \div 6, 16, C % 6 >>

\* lines 39-41: the checksum tail
EncTail(C) == << C % 6, 16, C \div 6 >>

EncFail(i, C) ==
    [ok |-> FALSE, exc |-> "IndexError", out |-> <<>>, C |-> C, rounds |-> i]

\* vow[v[1]], con[v[2]], vow[v[3]]: every index must be in range
InTables(v) == v[1] \in 0..5 /\ v[2] \in 0..16 /\ v[3] \in 0..5

Chars3(v) == << vow[v[1] + 1], con[v[2] + 1], vow[v[3] + 1] >>

RECURSIVE encode_loop(_, _, _, _)
encode_loop(s, i, C, out) ==
    LET n == Len(s) IN
    IF i >= rounds(n)
    THEN [ok |-> TRUE, exc |-> "", out |-> out \o <<con[Len(con)]>>,
          C |-> C, rounds |-> i]
    ELSE IF EncodesByte(i, n)
    THEN IF 2 * i >= n
         THEN EncFail(i, C)
         ELSE LET h == EncHead(s[2 * i + 1], C) IN
              IF ~InTables(h)
              THEN EncFail(i, C)
              ELSE IF i + 1 < rounds(n)
              THEN IF 2 * i + 1 >= n
                   THEN EncFail(i, C)
                   ELSE encode_loop(s, i + 1,
                            EncNextC(C, s[2 * i + 1], s[2 * i + 2]),
                            out \o Chars3(h) \o EncPair(s[2 * i + 2]))
              ELSE encode_loop(s, i + 1, C, out \o Chars3(h))
    ELSE LET t == EncTail(C) IN
         IF ~InTables(t)
         THEN EncFail(i, C)
         ELSE encode_loop(s, i + 1, C, out \o Chars3(t))

encode(s) == encode_loop(s, 0, 1, <<con[Len(con)]>>)

\* ------------------------------------------------------------------ decode
Raise(exc, msg, pos) == [exc |-> exc, msg |-> msg, pos |-> pos, v |-> <<>>]
Value(v) == [exc |-> "", msg |-> "", pos |-> NoPos, v |-> v]

decode_3way(a, b, c, pos, C) ==
    LET h2 == (a - (C % 6) + 6) % 6
        m4 == b
        l2 == (c - ((C \div 6) % 6)) % 6
    IN  IF ~(h2 < 4) THEN Raise("AssertionError", "Corrupt char at", pos)
        ELSE IF ~(b < 16)
        THEN Raise("AssertionError", "Corrupt char at", pos + 1)
        ELSE IF ~(l2 < 4)
        THEN Raise("AssertionError", "Corrupt char at", pos + 2)
        ELSE Value(h2 * 64 + m4 * 4 + l2)

decode_2way(a, b, pos) ==
    IF ~(a < 16) THEN Raise("AssertionError", "Corrupt char at", pos)
    ELSE IF ~(b < 16) THEN Raise("AssertionError", "Corrupt char at", pos + 1)
    ELSE Value(a * 16 + b)

\* tbl.index(t[k]): IndexError past the end of t, ValueError when the
\* character is not in the table; neither message carries a position
Lookup(tbl, t, k) ==
    IF k >= Len(t) THEN Raise("IndexError", "string index out of range", NoPos)
    ELSE IF PyIndex(tbl, t[k + 1]) = NotFound
    THEN Raise("ValueError", "substring not found", NoPos)
    ELSE Value(PyIndex(tbl, t[k + 1]))

\* offset, inside a 6-character slice, of the second consonant of the
\* second byte
SecondConsOffset == 5

decode_tuple(t, pos) ==
    LET a == Lookup(vow, t, 0)
        b == Lookup(con, t, 1)
        c == Lookup(vow, t, 2)
        d == Lookup(con, t, 3)
        e == Lookup(con, t, SecondConsOffset)
    IN  IF a.exc # "" THEN a
        ELSE IF b.exc # "" THEN b
        ELSE IF c.exc # "" THEN c
        ELSE IF Len(t) > 4
        THEN IF d.exc # "" THEN d
             ELSE IF e.exc # "" THEN e
             ELSE Value(<<a.v, b.v, c.v, d.v, e.v>>)
        ELSE Value(<<a.v, b.v, c.v>>)

\* the weight put on the second byte
DecNextC_swapped(C, b1, b2) == ((C * 5) + b1 + (b2 * 7)) % 36

DecNextC(C, b1, b2) == ((C * 5) + (b1 * 7) + b2) % 36

\* a length one short of a whole number of groups accepted too
LengthOk_loose(l) == l % 6 >= 4

\* line 84
LengthOk(l) == l % 6 = 5

\* lines 98 and 99: the two vowels of a checksum tail
TailHighOk(a, C) == a = C % 6
\* the low vowel compared with the high field of the checksum
TailLowOk_mod(c, C) == c = C % 6

TailLowOk(c, C) == c = C \div 6

\* the result of decode: out and C are the values of the local variables
\* when the call returned or raised, tuples the number of _decode_tuple
\* calls made
Failed(r, out, C, tuples) ==
    [ok |-> FALSE, exc |-> r.exc, msg |-> r.msg, pos |-> r.pos,
     out |-> out, C |-> C, tuples |-> tuples]

Returned(out, C, tuples) ==
    [ok |-> TRUE, exc |-> "", msg |-> "", pos |-> NoPos,
     out |-> out, C |-> C, tuples |-> tuples]

\* lines 96-104
decode_tail(encoded, pos, C, out, tuples) ==
    LET t == decode_tuple(PySlice(encoded, pos, pos + 6), pos) IN
    IF t.exc # "" THEN Failed(t, out, C, tuples + 1)
    ELSE IF t.v[2] = 16
    THEN IF ~TailHighOk(t.v[1], C)
         THEN Failed(Raise("AssertionError", "Corrupt char at", pos),
                     out, C, tuples + 1)
         ELSE IF ~TailLowOk(t.v[3], C)
         THEN Failed(Raise("AssertionError", "Corrupt char at", pos + 2),
                     out, C, tuples + 1)
         ELSE Returned(out, C, tuples + 1)
    ELSE LET b1 == decode_3way(t.v[1], t.v[2], t.v[3], pos, C) IN
         IF b1.exc # "" THEN Failed(b1, out, C, tuples + 1)
         ELSE Returned(Append(out, b1.v), C, tuples + 1)

\* lines 86-94, then the tail
RECURSIVE decode_loop(_, _, _, _, _)
decode_loop(encoded, pos, C, out, tuples) ==
    IF pos < (Len(encoded) \div 6) * 6
    THEN LET t == decode_tuple(PySlice(encoded, pos, pos + 6), pos) IN
         IF t.exc # "" THEN Failed(t, out, C, tuples + 1)
         ELSE LET b1 == decode_3way(t.v[1], t.v[2], t.v[3], pos, C) IN
              IF b1.exc # "" THEN Failed(b1, out, C, tuples + 1)
              ELSE IF Len(t.v) < 5
              THEN Failed(Raise("IndexError", "tuple index out of range",
                                NoPos), out, C, tuples + 1)
              ELSE LET b2 == decode_2way(t.v[4], t.v[5], pos + 2) IN
                   IF b2.exc # "" THEN Failed(b2, out, C, tuples + 1)
                   ELSE decode_loop(encoded, pos + 6,
                                    DecNextC(C, b1.v, b2.v),
                                    out \o <<b1.v, b2.v>>, tuples + 1)
    ELSE decode_tail(encoded, pos, C, out, tuples)

decode(encoded) ==
    LET l == Len(encoded) IN
    IF l = 0
    THEN Failed(Raise("IndexError", "string index out of range", NoPos),
                <<>>, 1, 0)
    ELSE IF ~(encoded[1] = "x")
    THEN Failed(Raise("AssertionError", "Must begin with an 'x'", NoPos),
                <<>>, 1, 0)
    ELSE IF ~(encoded[l] = "x")
    THEN Failed(Raise("AssertionError", "Must end with an 'x'", NoPos),
                <<>>, 1, 0)
    ELSE IF ~LengthOk(l)
    THEN Failed(Raise("AssertionError", "Bad length", NoPos), <<>>, 1, 0)
    ELSE decode_loop(encoded, 1, 1, <<>>, 0)

\* ----------------------------------------------------------- state machine
VARIABLES
    phase,      \* "idle", "encoded", "altered", "fed", "decoded"
    origin,     \* where the string given to decode comes from:
                \* "none", "encode" or "fed"
    s,          \* the bytes given to encode
    enc,        \* the result of encode(s)
    encoded,    \* the string given to decode
    altered,    \* offset of the substituted character, NoPos when none
    res         \* the result of decode(encoded)

vars == <<phase, origin, s, enc, encoded, altered, res>>

NoEnc == [ok |-> FALSE, exc |-> "", out |-> <<>>, C |-> 0, rounds |-> 0]
NoRes == [ok |-> FALSE, exc |-> "", msg |-> "", pos |-> NoPos,
          out |-> <<>>, C |-> 0, tuples |-> 0]

RECURSIVE SeqsUpTo(_, _)
SeqsUpTo(S, n) ==
    IF n = 0 THEN {<<>>}
    ELSE LET P == SeqsUpTo(S, n - 1) IN
         P \cup {Append(q, x) : q \in {p \in P : Len(p) = n - 1}, x \in S}

Inputs == SeqsUpTo(ByteSet, MaxLen) \cup KnownVectors \cup EveryByte
FedStrings == SeqsUpTo(FeedChars, MaxStrLen)

Init ==
    /\ phase = "idle"
    /\ origin = "none"
    /\ s = <<>>
    /\ enc = NoEnc
    /\ encoded = <<>>
    /\ altered = NoPos
    /\ res = NoRes

\* b = encode(a) for an input a; b is what decode will be given
Encode ==
    /\ phase = "idle"
    /\ \E a \in Inputs :
        /\ s' = a
        /\ enc' = encode(a)
        /\ encoded' = enc'.out
    /\ phase' = "encoded"
    /\ origin' = "encode"
    /\ UNCHANGED <<altered, res>>

\* one character of an encoded string is replaced on the way to decode
Substitute ==
    /\ phase = "encoded"
    /\ \E p \in 0..(Len(encoded) - 1) :
        \E ch \in Alphabet \ {encoded[p + 1]} :
            /\ encoded' = [encoded EXCEPT ![p + 1] = ch]
            /\ altered' = p
    /\ phase' = "altered"
    /\ UNCHANGED <<origin, s, enc, res>>

\* decode is called on a string that no encode produced
Feed ==
    /\ phase = "idle"
    /\ \E str \in FedStrings : encoded' = str
    /\ phase' = "fed"
    /\ origin' = "fed"
    /\ UNCHANGED <<s, enc, altered, res>>

\* c = decode(b)
Decode ==
    /\ phase \in {"encoded", "altered", "fed"}
    /\ res' = decode(encoded)
    /\ phase' = "decoded"
    /\ UNCHANGED <<origin, s, enc, encoded, altered>>

Next ==
    \/ Encode
    \/ Substitute
    \/ Feed
    \/ Decode

Spec == Init /\ [][Next]_vars

TypeOK ==
    /\ phase \in {"idle", "encoded", "altered", "fed", "decoded"}
    /\ origin \in {"none", "encode", "fed"}
    /\ altered \in {NoPos} \cup 0..(Len(encoded) - 1)
    /\ \A k \in 1..Len(s) : s[k] \in 0..255
    /\ \A k \in 1..Len(res.out) : res.out[k] \in 0..255

\* ------------------------------------------------------ vocabulary of claims
\* encode was called on s (and has returned or raised)
Encoded == origin = "encode" /\ phase # "idle"

\* decode was called on exactly what encode returned
DecodedIntact == phase = "decoded" /\ origin = "encode" /\ altered = NoPos

\* decode was called on an encoded string with one character replaced
DecodedAltered == phase = "decoded" /\ altered # NoPos

XEXAX == <<"x", "e", "x", "a", "x">>

\* k is "v" (any vowel), "c" (any consonant) or the character itself
Matches(ch, k) ==
    CASE k = "v" -> ch \in Range(vow)
      [] k = "c" -> ch \in Range(con)
      [] OTHER -> ch = k

\* e is 'x', n \div 2 groups of the given 6-character pattern, a
\* vowel-consonant-vowel tail and 'x'
HasShape(e, n, group) ==
    /\ Len(e) = 6 * (n \div 2) + 5
    /\ e[1] = "x"
    /\ e[Len(e)] = "x"
    /\ \A g \in 0..((n \div 2) - 1) :
           \A j \in 1..6 : Matches(e[1 + 6 * g + j], group[j])
    /\ Matches(e[Len(e) - 3], "v")
    /\ Matches(e[Len(e) - 2], "c")
    /\ Matches(e[Len(e) - 1], "v")

\* the checksum after the first k pairs of b: 1, then
\* (C*5 + byte1*7 + byte2) % 36 per pair
RECURSIVE ChecksumOfPairs(_, _)
ChecksumOfPairs(b, k) ==
    IF k = 0 THEN 1
    ELSE (ChecksumOfPairs(b, k - 1) * 5 + b[2 * k - 1] * 7 + b[2 * k]) % 36

\* the table of the character at offset p of a well-formed string of
\* length l: "v", "c", or "none" for the delimiters and the separators
SlotKind(p, l) ==
    IF p = 0 \/ p = l - 1 THEN "none"
    ELSE IF p % 6 \in {1, 3} THEN "v"
    ELSE IF p % 6 = 5 THEN "none"
    ELSE "c"

\* the replaced character cannot stand at its offset: outside the table of
\* its slot, at an offset that carries no table character, or the reserved
\* consonant in a slot of a pair group
AlteredIsBad ==
    LET l == Len(encoded)
        ch == encoded[altered + 1]
        k == SlotKind(altered, l)
    IN  \/ k = "none"
        \/ ~Matches(ch, k)
        \/ k = "c" /\ ch = "x" /\ altered # l - 3

\* ------------------------------------------------------------------ claims

\* C1: round trip: for every byte sequence B, decode(encode(B)) succeeds and
\* returns exactly B.
RoundTrip == DecodedIntact => (res.ok /\ res.out = s)

RoundTripWitness ==
    /\ DecodedIntact
    /\ Len(s) = 3
    /\ s[3] = 255
    /\ res.out = s

\* C2: encode is total: for every byte sequence it returns a string after
\* 1 + n/2 rounds and raises no error (no index out of range).
EncodeTotal ==
    Encoded => (/\ enc.ok
                /\ enc.exc = ""
                /\ enc.rounds = 1 + Len(s) \div 2
                /\ enc.out # <<>>)

EncodeTotalWitness ==
    /\ Encoded
    /\ Len(s) = 3
    /\ enc.ok
    /\ enc.rounds = 2

\* C3 as stated: every byte pair yields vowel, consonant, vowel, consonant,
\* consonant, hyphen (the hyphen is the 6th character of the group).
ShapeHyphenSixth ==
    Encoded => HasShape(enc.out, Len(s), <<"v", "c", "v", "c", "c", "-">>)

\* C3 amended: encode(B) is 'x', one group of vowel, consonant, vowel,
\* consonant, hyphen, consonant per byte pair (the hyphen is the 5th
\* character of the group, between the two consonants of the second byte),
\* a vowel-consonant-vowel tail and the closing 'x'.
ShapeHyphenFifth ==
    Encoded => HasShape(enc.out, Len(s), <<"v", "c", "v", "c", "-", "c">>)

ShapeWitness ==
    /\ Encoded
    /\ s = VPineapple
    /\ Len(enc.out) = 29
    /\ enc.out[6] = "-"

\* C4: decode of an encoded string with one character replaced fails unless
\* the replacement is a character of the table of its slot (and the range
\* checks pass); in particular it fails when the replaced character is the
\* leading 'x', the trailing 'x' or a '-' separator.
SubstitutionDetected ==
    (DecodedAltered /\ res.ok) =>
        (/\ SlotKind(altered, Len(encoded)) # "none"
         /\ Matches(encoded[altered + 1], SlotKind(altered, Len(encoded))))

\* C5: when decode fails because of a character that cannot stand at its
\* offset, the position the failure reports is the 0-based offset of that
\* character: pos, pos+1 or pos+2 for a character of the first byte of the
\* group starting at pos, pos+3 or pos+5 for a consonant of the second byte.
ReportsOffendingOffset ==
    (DecodedAltered /\ AlteredIsBad /\ ~res.ok /\ res.pos # NoPos)
        => res.pos = altered

\* C6 as stated: every string whose length is not 5 modulo 6 fails with the
\* bad-length error, before any character of the string is examined.
BadLengthAlways ==
    (phase = "decoded" /\ Len(encoded) % 6 # 5) =>
        (~res.ok /\ res.msg = "Bad length")

\* C6 amended: every string whose length is not 5 modulo 6 makes decode
\* fail before any table lookup and with no output; the failure is the
\* bad-length error when the string is not empty and starts and ends with
\* 'x', the framing error of its first (else last) character when that one
\* is not 'x', and an index error for the empty string.
BadLengthAfterFraming ==
    (phase = "decoded" /\ Len(encoded) % 6 # 5) =>
        LET l == Len(encoded) IN
        /\ ~res.ok
        /\ res.tuples = 0
        /\ res.out = <<>>
        /\ l = 0 => res.exc = "IndexError"
        /\ (l > 0 /\ encoded[1] # "x") => res.msg = "Must begin with an 'x'"
        /\ (l > 0 /\ encoded[1] = "x" /\ encoded[l] # "x")
               => res.msg = "Must end with an 'x'"
        /\ (l > 0 /\ encoded[1] = "x" /\ encoded[l] = "x")
               => res.msg = "Bad length"

BadLengthWitness ==
    /\ phase = "decoded"
    /\ encoded = <<"x", "a", "a", "x">>
    /\ res.msg = "Bad length"

\* C7: encode of the empty byte sequence is exactly "xexax" (C = 1), and
\* decode("xexax") succeeds and returns the empty byte sequence.
EmptyInput ==
    /\ (Encoded /\ s = <<>>) => (enc.ok /\ enc.out = XEXAX /\ enc.C = 1)
    /\ (phase = "decoded" /\ encoded = XEXAX) => (res.ok /\ res.out = <<>>)

EmptyInputWitness ==
    /\ DecodedIntact
    /\ s = <<>>
    /\ encoded = XEXAX
    /\ res.ok

\* C8 as stated: encode("1234567890") has 22 characters and
\* encode("Pineapple") has 17.
KnownVectorLengths22And17 ==
    /\ (Encoded /\ s = V1234567890) => Len(enc.out) = 22
    /\ (Encoded /\ s = VPineapple) => Len(enc.out) = 17

\* C8 amended: encode("1234567890") has 35 characters and
\* encode("Pineapple") has 29 (delimiters and hyphens counted).
KnownVectorLengths35And29 ==
    /\ (Encoded /\ s = V1234567890) => (enc.ok /\ Len(enc.out) = 35)
    /\ (Encoded /\ s = VPineapple) => (enc.ok /\ Len(enc.out) = 29)

KnownVectorWitness ==
    /\ Encoded
    /\ s = V1234567890
    /\ enc.ok
    /\ phase = "encoded"

\* the three characters before the closing 'x' are the checksum tail of the
\* checksum after all full pairs of s
HasChecksumTail ==
    LET e == enc.out
        C == ChecksumOfPairs(s, Len(s) \div 2)
    IN  /\ Len(e) = 6 * (Len(s) \div 2) + 5
        /\ e[Len(e) - 3] = vow[(C % 6) + 1]
        /\ e[Len(e) - 2] = "x"
        /\ e[Len(e) - 1] = vow[(C \div 6) + 1]

\* C9 as stated: when n is odd or n = 0, the tail is vowel[C % 6], 'x',
\* vowel[C / 6].
ChecksumTailWhenOddOrEmpty ==
    (Encoded /\ (Len(s) % 2 = 1 \/ Len(s) = 0)) => HasChecksumTail

\* C9 amended: when n is even (n = 0 included), the 3 characters before the
\* closing 'x' are vowel[C % 6], 'x', vowel[C / 6], C the checksum after
\* all full pairs, and the tail consumes no input byte (the n/2 groups
\* before it hold all n bytes); when n is odd the middle character of the
\* tail is never 'x'.
ChecksumTailWhenEven ==
    /\ (Encoded /\ Len(s) % 2 = 0) => (enc.ok /\ HasChecksumTail)
    /\ (Encoded /\ Len(s) % 2 = 1) =>
           LET e == enc.out
               b == s[Len(s)]
               C == ChecksumOfPairs(s, Len(s) \div 2)
           IN  /\ enc.ok
               /\ Len(e) = 6 * (Len(s) \div 2) + 5
               /\ e[Len(e) - 3] = vow[((((b \div 64) % 4) + C) % 6) + 1]
               /\ e[Len(e) - 2] = con[((b \div 4) % 16) + 1]
               /\ e[Len(e) - 2] # "x"
               /\ e[Len(e) - 1] = vow[(((b % 4) + (C \div 6)) % 6) + 1]

ChecksumTailWitness ==
    /\ Encoded
    /\ Len(s) = 2
    /\ s[1] = 255
    /\ enc.C # 1
    /\ enc.out[Len(enc.out) - 2] = "x"

\* decode went through every pair group of a well-framed string of length
\* 5 modulo 6 and looked its tail up in the tables
ReachedTail ==
    /\ phase = "decoded"
    /\ Len(encoded) % 6 = 5
    /\ encoded[1] = "x"
    /\ encoded[Len(encoded)] = "x"
    /\ res.tuples = Len(encoded) \div 6 + 1

\* C10: if the middle character of the tail is the reserved 'x', decode
\* succeeds only when the two tail vowels have indices exactly C % 6 and
\* C / 6, C being 1 updated as (C*5 + b0*7 + b1) % 36 after each decoded
\* pair (so within 0..35), and then appends no byte; if it is another
\* consonant, exactly one final byte is decoded with the checksum-offset
\* 3-way decode and appended.
TailCheck ==
    ReachedTail =>
        LET l == Len(encoded)
            g == l \div 6
            C == ChecksumOfPairs(res.out, g)
            a == encoded[l - 3]
            m == encoded[l - 2]
            c == encoded[l - 1]
        IN  /\ Len(res.out) >= 2 * g
            /\ res.C = C
            /\ C \in 0..35
            /\ m = "x" =>
                   /\ res.ok <=> (a = vow[(C % 6) + 1]
                                  /\ c = vow[(C \div 6) + 1])
                   /\ Len(res.out) = 2 * g
            /\ (m # "x" /\ res.ok) =>
                   /\ Len(res.out) = 2 * g + 1
                   /\ LET b == res.out[2 * g + 1] IN
                      /\ b \in 0..255
                      /\ a = vow[((((b \div 64) % 4) + C) % 6) + 1]
                      /\ m = con[((b \div 4) % 16) + 1]
                      /\ c = vow[(((b % 4) + (C \div 6)) % 6) + 1]
            /\ (m # "x" /\ ~res.ok) => Len(res.out) = 2 * g

TailCheckWitness ==
    /\ ReachedTail
    /\ Len(encoded) = 11
    /\ encoded[9] = "x"
    /\ ~res.ok
    /\ res.C # 1
    /\ res.pos = 9
====
